---- MODULE Spec2Model ----
(***************************************************************************)
(* Model of AutomationScripts/ContinuousAssesment8.py: the attendance      *)
(* loader, the session marker and the batch driver `main`.                 *)
(*                                                                         *)
(* A Python str is a sequence of one-character strings, so that strip,     *)
(* lower, startswith, the regular expression (\d+) and split are computed  *)
(* and not assumed.  Indices named after the source (header_idx, att_idx,  *)
(* data_start) are 0-based as in the source; a sequence is read at i + 1.  *)
(***************************************************************************)
EXTENDS Integers, Sequences, FiniteSets, TLC

\* ------------------------------------------------------------ Python str

UpperCase == <<"A","B","C","D","E","F","G","H","I","J","K","L","M","N","O","P","Q","R","S","T","U","V","W","X","Y","Z">>
LowerCase == <<"a","b","c","d","e","f","g","h","i","j","k","l","m","n","o","p","q","r","s","t","u","v","w","x","y","z">>
DigitChars == <<"0","1","2","3","4","5","6","7","8","9">>

\* a sequence given as a function of its indices, as the tuple it is
Tup(f) == f \o <<>>

SetMin(S) == CHOOSE x \in S : \A y \in S : x <= y
SetMax(S) == CHOOSE x \in S : \A y \in S : y <= x

\* str.lower() on one character
UpperSet == {UpperCase[k] : k \in 1..26}
LowerChar(c) ==
    IF c \in UpperSet
    THEN LowerCase[CHOOSE k \in 1..26 : UpperCase[k] = c]
    ELSE c

\* str.lower()
lower(s) == Tup([k \in 1..Len(s) |-> LowerChar(s[k])])

IsSpace(c) == c \in {" ", "\t"}

\* str.strip(): leading and trailing whitespace removed
strip(s) ==
    LET keep == {k \in 1..Len(s) : ~IsSpace(s[k])}
    IN  IF keep = {} THEN <<>> ELSE SubSeq(s, SetMin(keep), SetMax(keep))

\* str.startswith(p), str.endswith(p), `p in s`
startswith(s, p) == Len(s) >= Len(p) /\ SubSeq(s, 1, Len(p)) = p
endswith(s, p) == Len(s) >= Len(p) /\ SubSeq(s, Len(s) - Len(p) + 1, Len(s)) = p
contains(s, p) == \E k \in 1..(Len(s) - Len(p) + 1) : SubSeq(s, k, k + Len(p) - 1) = p

DigitSet == {DigitChars[k] : k \in 1..10}
IsDigit(c) == c \in DigitSet
DigitVal(c) == (CHOOSE k \in 1..10 : DigitChars[k] = c) - 1

\* int() of a string of decimal digits
RECURSIVE ParseInt(_)
ParseInt(ds) ==
    IF ds = <<>> THEN 0
    ELSE 10 * ParseInt(SubSeq(ds, 1, Len(ds) - 1)) + DigitVal(ds[Len(ds)])

\* the value None where an int is expected (a roll key is never negative)
None == -1

\* a missing spreadsheet cell (NaN), whose str() is "nan"
NaN == <<"nan">>

\* pd.isna(roll)
isna(roll) == roll = NaN

\* extract_roll_number: re.search(r"(\d+)") is the first (leftmost, longest) run
\* of digits, int() its value
extract_roll_number(roll) ==
    IF isna(roll) THEN None
    ELSE LET ds == {k \in 1..Len(roll) : IsDigit(roll[k])}
         IN  IF ds = {} THEN None
             ELSE LET first == SetMin(ds)
                      last == SetMax({k \in ds : \A j \in first..k : j \in ds})
                  IN  ParseInt(SubSeq(roll, first, last))

\* ------------------------------------------------------ Python values
\* What normalize_presence may be handed: None, a number (here a bool, which
\* Python counts among the ints), or a str.
PyNone == [t |-> "none"]
PyNum(b) == [t |-> "num", v |-> b]
PyStr(s) == [t |-> "str", v |-> s]

TruthyTokens == {<<"p">>, <<"p","r","e","s","e","n","t">>, <<"y","e","s">>, <<"y">>, <<"1">>, <<"a","t","t","e","n","d","e","d">>, <<"t","r","u","e">>}

\* normalize_presence without the case fold
normalize_presence_nolower(val) ==
    IF val.t = "none" THEN FALSE
    ELSE IF val.t = "num" THEN val.v # FALSE
    ELSE strip(val.v) \in TruthyTokens

normalize_presence(val) ==
    IF val.t = "none" THEN FALSE
    ELSE IF val.t = "num" THEN val.v # FALSE
    ELSE lower(strip(val.v)) \in TruthyTokens

\* ------------------------------------------------------------ constants

SESSION_PREFIX == <<"S","e","s","s","i","o","n"," ">>
ROLL_ALIASES == <<<<"R","o","l","l">>, <<"R","o","l","l"," ","N","o">>, <<"R","o","l","l"," ","N","o",".">>, <<"R","o","l","l","N","u","m","b","e","r">>>>
TOTAL_COL_NAME == <<"T","o","t","a","l">>
KEY_COL == <<"_","_","r","o","l","l","_","n","u","m","_","k","e","y">>
PARAM_MARKS ==
    << [param |-> <<"T","i","m","e","l","y"," ","c","o","m","p","l","e","t","i","o","n",","," ","p","u","n","c","t","u","a","l","i","t","y">>, mark |-> 2],
       [param |-> <<"P","e","r","f","o","r","m","a","n","c","e",","," ","i","n","v","o","l","v","e","m","e","n","t",","," ","e","f","f","i","c","i","e","n","c","y">>, mark |-> 4],
       [param |-> <<"O","r","a","l"," ","P","r","e","s","e","n","t","a","t","i","o","n">>, mark |-> 3],
       [param |-> <<"D","o","c","u","m","e","n","t","a","t","i","o","n",","," ","n","e","a","t","n","e","s","s">>, mark |-> 1] >>

\* range(1, 5): the sessions of an attendance row
NumSessions == 4
\* row[:3]: the cells searched for the header
HeaderCells == 3
\* data_start = header_idx + 3
DataOffset == 3
\* len(row) < 3: a row too short to be a record
MinCells == 3

\* ------------------------------------------------------ load_attendance

\* f"{SESSION_PREFIX}{session_num}"
SessionLabel(session_num) == SESSION_PREFIX \o <<DigitChars[session_num + 1]>>

\* the test of line 50 on one row
is_header_row(row) ==
    /\ Len(row) >= 1
    /\ \E j \in 1..Len(row) :
          j <= HeaderCells /\ startswith(lower(strip(row[j])), <<"r","o","l","l">>)

\* the loop of lines 48-52: the first header row's index, None without one
header_idx(rows) ==
    LET hits == {k \in 0..(Len(rows) - 1) : is_header_row(rows[k + 1])}
    IN  IF hits = {} THEN None ELSE SetMin(hits)

\* att_idx = 3 + (session_num - 1) * 2
att_idx(session_num) == 3 + (session_num - 1) * 2

\* val = row[att_idx] if att_idx < len(row) else None, then normalize_presence
session_presence(row) ==
    Tup([n \in 1..NumSessions |->
            normalize_presence(IF att_idx(n) < Len(row)
                               THEN PyStr(row[att_idx(n) + 1]) ELSE PyNone)])

\* one entry of `cleaned`, with the key line 81 adds
attendance_record(row) ==
    [roll_raw |-> strip(row[1]), name |-> strip(row[2]), surname |-> strip(row[3]),
     session_presence |-> session_presence(row),
     roll_num_key |-> extract_roll_number(strip(row[1]))]

\* the loop of lines 61-78 over rows[data_start:]
RECURSIVE cleaned(_, _)
cleaned(rows, from) ==
    IF from >= Len(rows) THEN <<>>
    ELSE LET row == rows[from + 1]
         IN  IF Len(row) < MinCells THEN cleaned(rows, from + 1)
             ELSE <<attendance_record(row)>> \o cleaned(rows, from + 1)

\* load_attendance that returns the empty frame where the source raises
load_attendance_lenient(rows) ==
    IF header_idx(rows) = None THEN [raised |-> "ok", df |-> <<>>]
    ELSE [raised |-> "ok", df |-> cleaned(rows, header_idx(rows) + DataOffset)]

\* load_attendance on the rows csv.reader yields.  pd.DataFrame([]) has no
\* column, so df["Roll No."] of line 81 raises KeyError when `cleaned` is empty.
load_attendance(rows) ==
    IF header_idx(rows) = None THEN [raised |-> "ValueError", df |-> <<>>]
    ELSE LET recs == cleaned(rows, header_idx(rows) + DataOffset)
         IN  IF recs = <<>> THEN [raised |-> "KeyError", df |-> <<>>]
             ELSE [raised |-> "ok", df |-> recs]

\* attendance_df.columns
attendance_columns ==
    {<<"R","o","l","l"," ","N","o",".">>, <<"N","a","m","e">>, <<"S","u","r","n","a","m","e">>, KEY_COL}
        \cup {SessionLabel(n) : n \in 1..NumSessions}

\* ------------------------------------------------------ find_roll_column

\* alias.strip().lower() of each alias
FoldedAliases == Tup([a \in 1..Len(ROLL_ALIASES) |-> lower(strip(ROLL_ALIASES[a]))])

\* the column found among names already stripped and case-folded
first_roll_match(names) ==
    LET exact(a) == {c \in 1..Len(names) : names[c] = FoldedAliases[a]}
        aliases == {a \in 1..Len(FoldedAliases) : exact(a) # {}}
        fallback == {c \in 1..Len(names) : contains(names[c], <<"r","o","l","l">>)}
    IN  IF aliases # {} THEN SetMin(exact(SetMin(aliases)))
        ELSE IF fallback # {} THEN SetMin(fallback)
        ELSE 0

\* find_roll_column: the index of the column it returns, 0 for None
find_roll_column(cols) ==
    first_roll_match(Tup([c \in 1..Len(cols) |-> lower(strip(cols[c]))]))

\* --------------------------------------------------- process_experiment
\* A file's content: a table (the column names, and one sequence of cells per
\* row), an unreadable file, or no file.
Table(cols, rows) == [kind |-> "table", cols |-> cols, rows |-> rows]
Unreadable == [kind |-> "unreadable", cols |-> <<>>, rows |-> <<>>]
Absent == [kind |-> "absent", cols |-> <<>>, rows |-> <<>>]

ParamNames == {PARAM_MARKS[k].param : k \in 1..Len(PARAM_MARKS)}
MarkOf(col) == PARAM_MARKS[CHOOSE k \in 1..Len(PARAM_MARKS) : PARAM_MARKS[k].param = col].mark

HasCol(t, col) == \E c \in 1..Len(t.cols) : t.cols[c] = col
ColIdx(t, col) == CHOOSE c \in 1..Len(t.cols) : t.cols[c] = col

\* exp_df[col] = values: the column replaced where it is, else appended
set_column(t, col, values) ==
    IF HasCol(t, col)
    THEN LET at == ColIdx(t, col)
         IN  Table(t.cols,
                   Tup([i \in 1..Len(t.rows) |->
                           Tup([c \in 1..Len(t.cols) |->
                                   IF c = at THEN values[i] ELSE t.rows[i][c]])]))
    ELSE Table(Append(t.cols, col),
               Tup([i \in 1..Len(t.rows) |-> Append(t.rows[i], values[i])]))

\* if col not in exp_df.columns: exp_df[col] = 0
ensure_column(t, col) ==
    IF HasCol(t, col) THEN t
    ELSE set_column(t, col, Tup([i \in 1..Len(t.rows) |-> 0]))

\* lines 113-119: the parameter columns in the order of PARAM_MARKS, then Total
RECURSIVE ensure_params(_, _)
ensure_params(t, k) ==
    IF k = 0 THEN t
    ELSE ensure_column(ensure_params(t, k - 1), PARAM_MARKS[k].param)

ensure_columns(t) == ensure_column(ensure_params(t, Len(PARAM_MARKS)), TOTAL_COL_NAME)

\* exp_df.drop(columns=[col], errors="ignore")
drop_column(t, col) ==
    IF ~HasCol(t, col) THEN t
    ELSE LET c == ColIdx(t, col)
             cut(r) == SubSeq(r, 1, c - 1) \o SubSeq(r, c + 1, Len(r))
         IN  Table(cut(t.cols), Tup([i \in 1..Len(t.rows) |-> cut(t.rows[i])]))

\* to_dict keeping the first record of a key
RECURSIVE to_dict_first(_, _, _)
to_dict_first(df, n, k) ==
    IF k = 0 THEN <<>>
    ELSE to_dict_first(df, n, k - 1) @@ (df[k].roll_num_key :> df[k].session_presence[n])

\* attendance_df.set_index("__roll_num_key")[session_col].to_dict() for the
\* n-th session column: the records in order, a later one replacing an earlier
\* one of the same key (the key None included)
RECURSIVE to_dict(_, _, _)
to_dict(df, n, k) ==
    IF k = 0 THEN <<>>
    ELSE (df[k].roll_num_key :> df[k].session_presence[n]) @@ to_dict(df, n, k - 1)

\* the session the label names (0: none)
SessionOf(session_col) ==
    IF \E n \in 1..NumSessions : SessionLabel(n) = session_col
    THEN CHOOSE n \in 1..NumSessions : SessionLabel(n) = session_col
    ELSE 0

attendance_map(df, session_col) == to_dict(df, SessionOf(session_col), Len(df))

RECURSIVE SumCells(_, _, _)
SumCells(t, row, k) ==
    IF k = 0 THEN 0
    ELSE SumCells(t, row, k - 1) + row[ColIdx(t, PARAM_MARKS[k].param)]

\* the cell line 131 assigns, adding to the mark the cell holds
mark_value_accumulate(present, mark, old) == old + (IF present THEN mark ELSE 0)

\* the cell line 131 assigns, whatever the presence
mark_value_always(present, mark, old) == mark

\* mark if present else 0 (line 131); `old` is the cell's value before
mark_value(present, mark, old) == IF present THEN mark ELSE 0

\* whether the loop body skips the row (lines 123-127), a key without
\* attendance entry taken for an absence
row_skipped_known_only(key, amap) == key = None

\* lines 123-127: no key, or a key without attendance entry
row_skipped(key, amap) == key = None \/ key \notin DOMAIN amap

\* attendance_map.get(key)
dict_get(amap, key) == IF key \in DOMAIN amap THEN PyNum(amap[key]) ELSE PyNone

\* one pass of the loop body, lines 123-134, on a table that has its columns
mark_row(t, row, amap) ==
    LET key == row[ColIdx(t, KEY_COL)]
    IN  IF row_skipped(key, amap) THEN row
        ELSE LET present == normalize_presence(dict_get(amap, key))
                 marked == Tup([c \in 1..Len(row) |->
                                   IF t.cols[c] \in ParamNames
                                   THEN mark_value(present, MarkOf(t.cols[c]), row[c])
                                   ELSE row[c]])
                 total_score == SumCells(t, marked, Len(PARAM_MARKS))
                 total_at == ColIdx(t, TOTAL_COL_NAME)
             IN  Tup([c \in 1..Len(row) |->
                         IF c = total_at THEN total_score ELSE marked[c]])

mark_rows(t, amap) ==
    Table(t.cols, Tup([i \in 1..Len(t.rows) |-> mark_row(t, t.rows[i], amap)]))

Raise(e, saves) == [raised |-> e, saves |-> saves]

\* process_experiment saving the table before it has looked the session up
process_experiment_early_save(content, attendance_df, session_col, io) ==
    IF content.kind # "table" THEN Raise("ReadError", <<>>)
    ELSE LET roll_col == find_roll_column(content.cols)
         IN  IF roll_col = 0 THEN Raise("KeyError: roll column", <<>>)
             ELSE LET keys == Tup([i \in 1..Len(content.rows) |->
                                  extract_roll_number(content.rows[i][roll_col])])
                      keyed == ensure_columns(set_column(content, KEY_COL, keys))
                  IN  IF session_col \notin attendance_columns
                      THEN Raise("KeyError: session", <<drop_column(keyed, KEY_COL)>>)
                      ELSE Raise("ok", <<drop_column(
                               mark_rows(keyed, attendance_map(attendance_df, session_col)),
                               KEY_COL)>>)

\* process_experiment on the content of excel_path.  `io` is what to_excel
\* meets: "ok", "denied" (nothing written) or "torn" (a file cut short).
\* The result is the exception raised ("ok": none) and what was saved to
\* out_path, in order.
process_experiment(content, attendance_df, session_col, io) ==
    IF content.kind # "table" THEN Raise("ReadError", <<>>)
    ELSE LET roll_col == find_roll_column(content.cols)
         IN  IF roll_col = 0 THEN Raise("KeyError: roll column", <<>>)
             ELSE LET keys == Tup([i \in 1..Len(content.rows) |->
                                  extract_roll_number(content.rows[i][roll_col])])
                      keyed == set_column(content, KEY_COL, keys)
                  IN  IF session_col \notin attendance_columns
                      THEN Raise("KeyError: session", <<>>)
                      ELSE LET amap == attendance_map(attendance_df, session_col)
                               result == drop_column(
                                             mark_rows(ensure_columns(keyed), amap),
                                             KEY_COL)
                           IN  IF io = "denied" THEN Raise("WriteError", <<>>)
                               ELSE IF io = "torn" THEN Raise("WriteError", <<Unreadable>>)
                               ELSE Raise("ok", <<result>>)

\* ------------------------------------------------------------------ main

\* os.path.splitext(fname)[0]: the name up to its last dot, leading dots apart
splitext_root(fname) ==
    LET dots == {k \in 1..Len(fname) :
                    fname[k] = "." /\ \E j \in 1..(k - 1) : fname[j] # "."}
    IN  IF dots = {} THEN fname ELSE SubSeq(fname, 1, SetMax(dots) - 1)

\* str.split(sep)
RECURSIVE split(_, _)
split(s, sep) ==
    LET hits == {k \in 1..Len(s) : s[k] = sep}
    IN  IF hits = {} THEN <<s>>
        ELSE <<SubSeq(s, 1, SetMin(hits) - 1)>>
                 \o split(SubSeq(s, SetMin(hits) + 1, Len(s)), sep)

\* the filter of line 158
is_experiment_file(fname) ==
    /\ startswith(lower(fname), <<"e","x","p","e","r","i","m","e","n","t","_">>)
    /\ (endswith(lower(fname), <<".","x","l","s">>) \/ endswith(lower(fname), <<".","x","l","s","x">>))

\* lines 160-165: the session label of a file name; `raised` when [1] is out
\* of range
session_col_of(fname) ==
    LET parts == split(splitext_root(fname), "_")
    IN  IF Len(parts) < 2 THEN [raised |-> TRUE, session_col |-> <<>>]
        ELSE [raised |-> FALSE, session_col |-> SESSION_PREFIX \o parts[2]]

\* a handler that lets the exceptions of the file system through
caught_keyerror_only(raised) == raised \in {"KeyError: roll column", "KeyError: session"}

\* `except Exception` of line 181 catches whatever process_experiment raises
caught(raised) == TRUE

LogEntry(kind, fname, detail) == [kind |-> kind, fname |-> fname, detail |-> detail]

\* one pass of the loop of main, lines 158-182, on a file whose content in the
\* experiments directory is `content`: the call made, the lines printed, what
\* was saved to out_path, and the exception that leaves the loop ("ok": none)
main_iteration(fname, content, attendance_df, io) ==
    IF ~is_experiment_file(fname)
    THEN [calls |-> <<>>, log |-> <<>>, saves |-> <<>>, raised |-> "ok"]
    ELSE IF session_col_of(fname).raised
    THEN [calls |-> <<>>, log |-> <<LogEntry("skipped", fname, "unexpected naming")>>,
          saves |-> <<>>, raised |-> "ok"]
    ELSE LET session_col == session_col_of(fname).session_col
             r == process_experiment(content, attendance_df, session_col, io)
         IN  [calls |-> <<[fname |-> fname, session_col |-> session_col]>>,
              log |-> IF r.raised = "ok"
                      THEN <<LogEntry("processed", fname, "ok")>>
                      ELSE IF caught(r.raised)
                      THEN <<LogEntry("error", fname, r.raised)>>
                      ELSE <<>>,
              saves |-> r.saves,
              raised |-> IF r.raised = "ok" \/ caught(r.raised) THEN "ok" ELSE r.raised]

VARIABLES
    pc,             \* where main is: "start", "loop", "done", "failed"
    attExists,      \* os.path.exists(args.attendance)
    attRows,        \* the rows of the attendance CSV
    output_dir,     \* whether --output-dir is given
    listing,        \* os.listdir(args.experiments_dir)
    orig,           \* the experiments directory when main starts
    disk,           \* the experiments directory
    out,            \* the output directory
    attendance_df,  \* the records load_attendance returned
    idx,            \* the position of the loop in listing
    calls,          \* the calls of process_experiment made
    log,            \* the lines printed
    exc             \* the exception that ended main ("ok": none)

vars == <<pc, attExists, attRows, output_dir, listing, orig, disk, out,
          attendance_df, idx, calls, log, exc>>

\* -------------------------------------------------------------- the inputs

MaxFiles == 2
MaxAttRows == 2
MaxScoreRows == 2

SeqsUpTo(S, n) == UNION {[1..k -> S] : k \in 0..n}
Range(f) == {f[k] : k \in DOMAIN f}
Distinct(f) == \A j, k \in DOMAIN f : j # k => f[j] # f[k]

\* attendance rows
TitleRow == <<<<"A","t","t","e","n","d","a","n","c","e"," ","S","h","e","e","t">>>>
EmptyRow == <<>>
LateRollRow == <<<<"S","r">>, <<"N","a","m","e">>, <<"S","u","r","n","a","m","e">>, <<"R","o","l","l"," ","N","o",".">>>>
EnrollRow == <<<<"E","n","r","o","l","l","m","e","n","t"," ","l","i","s","t">>>>
HeaderRow == <<<<"R","o","l","l"," ","N","o",".">>, <<"N","a","m","e">>, <<"S","u","r","n","a","m","e">>, <<"S","e","s","s","i","o","n"," ","1">>, <<>>, <<"S","e","s","s","i","o","n"," ","2">>>>
HeaderRow2 == <<<<>>, <<" "," ","R","O","L","L"," ","n","u","m","b","e","r">>, <<"N","a","m","e">>>>
SubHeader == <<<<>>, <<>>, <<>>, <<"A","t","t","e","n","d","a","n","c","e">>, <<"T","i","m","e">>>>
JaneRow == <<<<"1","4">>, <<"J","a","n","e">>, <<"D","o","e">>, <<"P">>, <<"0","9",":","0","0">>, <<"A">>, <<"0","9",":","0","5">>>>
DataRows ==
    { JaneRow,
      <<<<"C","S","-","0","1","4">>, <<"J">>, <<"D">>, <<"A">>>>,
      <<<<" ","7"," ">>, <<"A","n","n">>, <<"B","o">>, <<"a","b","s","e","n","t">>, <<"-">>, <<" ","Y","e","s"," ">>>>,
      <<<<"a","b","s","e","n","t">>, <<"X">>, <<"Y">>, <<"P">>>>,
      <<<<"9">>, <<"Z">>>> }
Prefixes == {<<>>, <<TitleRow>>, <<EmptyRow, EnrollRow>>, <<LateRollRow, TitleRow>>}
HeaderBlocks ==
    {<<>>, <<HeaderRow>>, <<HeaderRow, SubHeader>>,
     <<HeaderRow, SubHeader, SubHeader>>, <<HeaderRow2, SubHeader, SubHeader>>}
AttTables ==
    {p \o h \o d : p \in Prefixes, h \in HeaderBlocks, d \in SeqsUpTo(DataRows, MaxAttRows)}

AttBlock(d) == <<HeaderRow, SubHeader, SubHeader>> \o d
SmallAtts ==
    { AttBlock(<<JaneRow, <<<<"C","S","-","0","1","4">>, <<"J">>, <<"D">>, <<"A">>>> >>),
      AttBlock(<< <<<<"C","S","-","0","1","4">>, <<"J">>, <<"D">>, <<"A">>>>, JaneRow,
                  <<<<"7">>, <<"A","n","n">>, <<"B","o">>, <<"0">>>> >>),
      AttBlock(<< <<<<"7">>, <<"A","n","n">>, <<"B","o">>, <<"y","e","s">>>>, <<<<"a","b","s","e","n","t">>, <<"X">>, <<"Y">>, <<"P">>>> >>) }

\* score tables
Param(k) == PARAM_MARKS[k].param
RollCells == {<<"0","1","4">>, <<"7">>, <<"9","9">>, <<"a","b","s","e","n","t">>, NaN}
PriorMarks == {0, 5}
ScoreCols ==
    << <<<<"E","n","r","o","l","l","m","e","n","t">>, <<"R","o","l","l"," ","N","o",".">>>>,
       <<<<"N","a","m","e">>, <<"S","t","u","d","e","n","t"," ","r","o","l","l">>, Param(1), Param(2), Param(3), Param(4), TOTAL_COL_NAME>>,
       <<<<"R","o","l","l">>, Param(2), TOTAL_COL_NAME>> >>
ScoreRow(v, roll, m) ==
    IF v = 1 THEN <<<<"E","7","7">>, roll>>
    ELSE IF v = 2 THEN <<<<"x">>, roll, m, m, m, m, 4 * m>>
    ELSE <<roll, m, m>>
ScoreTables ==
    {Table(ScoreCols[v], Tup([k \in DOMAIN rs |-> ScoreRow(v, rs[k][1], rs[k][2])])) :
        v \in DOMAIN ScoreCols, rs \in SeqsUpTo(RollCells \X PriorMarks, MaxScoreRows)}

NoRollTable == Table(<<<<"N","a","m","e">>, Param(1)>>, << <<<<"x">>, 5>> >>)
TinyTable == Table(<<<<"R","o","l","l"," ","N","o">>, Param(1)>>, << <<<<"1","4">>, 5>>, <<<<"7">>, 5>>, <<<<"8">>, 5>> >>)
TinyContents == {Unreadable, NoRollTable, TinyTable}

FileNames ==
    { <<"e","x","p","e","r","i","m","e","n","t","_","1",".","x","l","s","x">>, <<"E","x","p","e","r","i","m","e","n","t","_","2",".","X","L","S">>, <<"e","x","p","e","r","i","m","e","n","t","_","a","b","c",".","x","l","s","x">>,
      <<"e","x","p","e","r","i","m","e","n","t","_","1","_","f","i","n","a","l",".","x","l","s","x">>, <<"r","e","s","u","l","t","s","_","1",".","x","l","s","x">>, <<"e","x","p","e","r","i","m","e","n","t","_","1",".","c","s","v">> }
Listings == {l \in SeqsUpTo(FileNames, MaxFiles) : Distinct(l)}

NoFiles(names) == [f \in names |-> Absent]

InitCommon ==
    /\ pc = "start"
    /\ disk = orig
    /\ out = NoFiles(DOMAIN orig)
    /\ attendance_df = <<>>
    /\ idx = 1
    /\ calls = <<>>
    /\ log = <<>>
    /\ exc = "ok"

\* many directory listings, few attendance sources and tables
InitListings ==
    /\ attExists = TRUE
    /\ attRows = AttBlock(<<JaneRow>>)
    /\ output_dir \in BOOLEAN
    /\ listing \in Listings
    /\ orig \in [Range(listing) -> TinyContents]
    /\ \A f \in Range(listing) : ~is_experiment_file(f) => orig[f] = TinyTable

\* many attendance sources, one score file
InitAttendance ==
    /\ attExists \in BOOLEAN
    /\ attRows \in AttTables
    /\ output_dir = TRUE
    /\ listing = <<<<"E","x","p","e","r","i","m","e","n","t","_","2",".","X","L","S">>>>
    /\ orig = [f \in Range(listing) |-> TinyTable]

\* many score tables, few attendance sources
InitTables ==
    /\ attExists = TRUE
    /\ attRows \in SmallAtts
    /\ output_dir = FALSE
    /\ listing = <<<<"e","x","p","e","r","i","m","e","n","t","_","1",".","x","l","s","x">>>>
    /\ orig \in [Range(listing) -> ScoreTables]

Init == (InitListings \/ InitAttendance \/ InitTables) /\ InitCommon

\* ------------------------------------------------------------ the actions

\* lines 151-155
LoadAttendance ==
    /\ pc = "start"
    /\ LET r == load_attendance(attRows)
           raised == IF ~attExists THEN "FileNotFoundError"
                     ELSE IF r.raised # "ok" THEN r.raised
                     ELSE IF KEY_COL \notin attendance_columns THEN "RuntimeError"
                     ELSE "ok"
       IN  /\ exc' = raised
           /\ pc' = IF raised = "ok" THEN "loop" ELSE "failed"
           /\ attendance_df' = IF raised = "ok" THEN r.df ELSE <<>>
    /\ UNCHANGED <<attExists, attRows, output_dir, listing, orig, disk, out, idx, calls, log>>

IoOutcomes == {"ok", "denied", "torn"}

\* lines 157-182, one file of the listing
NextFile ==
    /\ pc = "loop"
    /\ idx <= Len(listing)
    /\ \E io \in IoOutcomes :
       \E it \in {main_iteration(listing[idx], disk[listing[idx]], attendance_df, io)} :
          LET fname == listing[idx]
              saved == it.saves # <<>>
              last == it.saves[Len(it.saves)]
          IN  /\ calls' = calls \o it.calls
              /\ log' = log \o it.log
              /\ disk' = IF saved /\ ~output_dir THEN [disk EXCEPT ![fname] = last] ELSE disk
              /\ out' = IF saved /\ output_dir THEN [out EXCEPT ![fname] = last] ELSE out
              /\ exc' = it.raised
              /\ pc' = IF it.raised = "ok" THEN "loop" ELSE "failed"
    /\ idx' = idx + 1
    /\ UNCHANGED <<attExists, attRows, output_dir, listing, orig, attendance_df>>

\* the loop of line 157 has gone through the listing
Finish ==
    /\ pc = "loop"
    /\ idx > Len(listing)
    /\ pc' = "done"
    /\ UNCHANGED <<attExists, attRows, output_dir, listing, orig, disk, out,
                   attendance_df, idx, calls, log, exc>>

Next == LoadAttendance \/ NextFile \/ Finish

Spec == Init /\ [][Next]_vars

\* ------------------------------------------------------------ the claims

\* where process_experiment saves the file
Dest(f) == IF output_dir THEN out[f] ELSE disk[f]

\* process_experiment printed its confirmation line for f
Processed(f) == \E m \in DOMAIN log : log[m].kind = "processed" /\ log[m].fname = f

\* an error line for f whose message is one of `details`
Failed(f, details) ==
    \E m \in DOMAIN log :
        log[m].kind = "error" /\ log[m].fname = f /\ log[m].detail \in details

\* the keys of the rows of table t, read from its roll column
RowKeysAt(t, roll_col) ==
    Tup([i \in 1..Len(t.rows) |-> extract_roll_number(t.rows[i][roll_col])])
RowKeys(t) == RowKeysAt(t, find_roll_column(t.cols))

\* the cell of row i of table t under column col
Cell(t, i, col) == t.rows[i][ColIdx(t, col)]

RubricCols == {Param(k) : k \in 1..4} \cup {TOTAL_COL_NAME}

\* the marks the claims name: 2, 4, 3, 1 and their sum
ClaimedMark(col) ==
    IF col = Param(1) THEN 2 ELSE IF col = Param(2) THEN 4
    ELSE IF col = Param(3) THEN 3 ELSE IF col = Param(4) THEN 1 ELSE 10

\* row i of the saved table outT is marked for presence `present`
RowMarkedFor(outT, i, present) ==
    \A col \in RubricCols : Cell(outT, i, col) = IF present THEN ClaimedMark(col) ELSE 0

\* row i of the saved table outT holds what row i of inT held (0 in a column
\* the input did not have)
RowKept(inT, outT, i) ==
    \A col \in RubricCols :
        Cell(outT, i, col) = IF HasCol(inT, col) THEN Cell(inT, i, col) ELSE 0

C1_Rows(keys, outT, amap) ==
    /\ Len(outT.rows) = Len(keys)
    /\ \A i \in 1..Len(keys) :
          keys[i] # None /\ keys[i] \in DOMAIN amap
              => RowMarkedFor(outT, i, amap[keys[i]])

\* C1: after process_experiment has run on a score table, every row whose roll
\* cell yields a key present in the attendance lookup holds the marks 2, 4, 3, 1
\* and Total 10 when the looked-up presence is true, and 0 in every rubric
\* column and in Total when it is false, whatever it held before.
C1_MatchedRowsMarked ==
    \A n \in DOMAIN calls :
        Processed(calls[n].fname) =>
            C1_Rows(RowKeys(orig[calls[n].fname]), Dest(calls[n].fname),
                    attendance_map(attendance_df, calls[n].session_col))

C1_WitnessRows(inT, keys, outT, amap) ==
    \E i, j \in 1..Len(inT.rows) :
        /\ keys[i] \in DOMAIN amap /\ keys[i] # None /\ amap[keys[i]]
        /\ keys[j] \in DOMAIN amap /\ keys[j] # None /\ ~amap[keys[j]]
        /\ HasCol(inT, Param(2))
        /\ Cell(inT, i, Param(2)) = 5 /\ Cell(outT, i, Param(2)) = 4
        /\ Cell(inT, j, Param(2)) = 5 /\ Cell(outT, j, Param(2)) = 0
        /\ Cell(outT, i, TOTAL_COL_NAME) = 10

\* a saved table with a present row and an absent row that both held 5
C1_Witness ==
    \E n \in DOMAIN calls :
        /\ Processed(calls[n].fname)
        /\ C1_WitnessRows(orig[calls[n].fname], RowKeys(orig[calls[n].fname]),
                          Dest(calls[n].fname),
                          attendance_map(attendance_df, calls[n].session_col))

C2_Rows(inT, keys, outT, amap) ==
    /\ Len(outT.rows) = Len(inT.rows)
    /\ \A i \in 1..Len(inT.rows) :
          keys[i] = None \/ keys[i] \notin DOMAIN amap => RowKept(inT, outT, i)

\* C2: a row whose roll cell yields no key, or a key without entry in the
\* attendance lookup, keeps its rubric cells and its Total cell.
C2_UnmatchedRowsKept ==
    \A n \in DOMAIN calls :
        Processed(calls[n].fname) =>
            C2_Rows(orig[calls[n].fname], RowKeys(orig[calls[n].fname]),
                    Dest(calls[n].fname),
                    attendance_map(attendance_df, calls[n].session_col))

C2_WitnessRows(inT, keys, outT, amap) ==
    \E i, j \in 1..Len(inT.rows) :
        /\ keys[i] = None
        /\ keys[j] # None /\ keys[j] \notin DOMAIN amap
        /\ HasCol(inT, Param(2)) /\ HasCol(inT, TOTAL_COL_NAME)
        /\ Cell(inT, i, Param(2)) = 5 /\ Cell(outT, i, Param(2)) = 5
        /\ Cell(inT, j, Param(2)) = 5 /\ Cell(outT, j, Param(2)) = 5
        /\ Cell(outT, j, TOTAL_COL_NAME) = Cell(inT, j, TOTAL_COL_NAME)

\* a saved table with a keyless row and a row of unmatched key that held 5
C2_Witness ==
    \E n \in DOMAIN calls :
        /\ Processed(calls[n].fname)
        /\ C2_WitnessRows(orig[calls[n].fname], RowKeys(orig[calls[n].fname]),
                          Dest(calls[n].fname),
                          attendance_map(attendance_df, calls[n].session_col))

\* C3: process_experiment applied, with the same session label, to the table
\* it saved saves that table again.
C3_Idempotent ==
    pc = "done" =>
        \A n \in DOMAIN calls :
            Processed(calls[n].fname) =>
                process_experiment(Dest(calls[n].fname), attendance_df,
                                   calls[n].session_col, "ok").saves
                    = <<Dest(calls[n].fname)>>

\* a run that changed the marks of a table
C3_Witness ==
    /\ pc = "done"
    /\ \E n \in DOMAIN calls :
          /\ Processed(calls[n].fname)
          /\ Dest(calls[n].fname).rows # orig[calls[n].fname].rows
          /\ Dest(calls[n].fname).cols = orig[calls[n].fname].cols

Called(f) == \E n \in DOMAIN calls : calls[n].fname = f

Untouched == disk = orig /\ out = NoFiles(DOMAIN orig)

\* C5: with the attendance source missing, or without header row in it, the
\* run aborts before any score file is read or written; no call of
\* process_experiment and no write happens unless load_attendance has
\* returned first.
C5_FatalBeforeAnyFile ==
    /\ ~attExists \/ header_idx(attRows) = None
          => calls = <<>> /\ log = <<>> /\ Untouched /\ pc \in {"start", "failed"}
    /\ calls # <<>> \/ ~Untouched
          => pc \in {"loop", "done"} /\ attendance_df # <<>>

\* a run ended by the header error with a score file waiting in the directory
C5_Witness ==
    /\ pc = "failed" /\ exc = "ValueError"
    /\ \E k \in DOMAIN listing :
          is_experiment_file(listing[k]) /\ orig[listing[k]].kind = "table"

\* the extension of f, if it is a spreadsheet's
SheetExt(f) == IF endswith(lower(f), <<".","x","l","s","x">>) THEN <<".","x","l","s","x">> ELSE <<".","x","l","s">>

\* what stands between "experiment_" and the extension
NameNumber(f) == SubSeq(f, Len(<<"e","x","p","e","r","i","m","e","n","t","_">>) + 1, Len(f) - Len(SheetExt(f)))

\* experiment_<N>.<ext>: N a number, ext a spreadsheet extension
IsPatternName(f) ==
    /\ startswith(lower(f), <<"e","x","p","e","r","i","m","e","n","t","_">>)
    /\ endswith(lower(f), SheetExt(f))
    /\ NameNumber(f) # <<>>
    /\ \A k \in DOMAIN NameNumber(f) : IsDigit(NameNumber(f)[k])

\* C6: only files named experiment_<N>.<ext>, N a number and ext a spreadsheet
\* extension, are handed to process_experiment, under the label "Session <N>";
\* a file with that prefix and extension whose number cannot be parsed is
\* skipped with a warning.
C6_OnlyPatternFilesHandled ==
    /\ \A n \in DOMAIN calls :
          /\ IsPatternName(calls[n].fname)
          /\ calls[n].session_col = <<"S","e","s","s","i","o","n"," ">> \o NameNumber(calls[n].fname)
    /\ \A k \in DOMAIN listing :
          k < idx /\ is_experiment_file(listing[k]) /\ ~IsPatternName(listing[k])
              => \E m \in DOMAIN log : log[m].kind = "skipped" /\ log[m].fname = listing[k]

\* the attendance table of the end-to-end example: the header row at index 2,
\* its two sub-header rows, and the one data row
JaneTable == <<EmptyRow, EnrollRow, HeaderRow, SubHeader, SubHeader, JaneRow>>

\* C7 as stated: the example yields Session 1 = true and Session 2 = true.
C7_JaneBothPresent ==
    attRows = JaneTable /\ pc \in {"loop", "done"} =>
        /\ Len(attendance_df) = 1
        /\ attendance_df[1].session_presence[1]
        /\ attendance_df[1].session_presence[2]

\* C7, amended: the example yields Session 1 = true (cell 3, "P") and
\* Session 2 = false (cell 5, "A"); sessions 3 and 4, whose cells 7 and 9 the
\* row does not have, are false.
C7_JanePresentThenAbsent ==
    attRows = JaneTable /\ pc \in {"loop", "done"} =>
        /\ header_idx(attRows) = 2
        /\ Len(attendance_df) = 1
        /\ attendance_df[1].roll_num_key = 14
        /\ attendance_df[1].session_presence = <<TRUE, FALSE, FALSE, FALSE>>

\* the example loaded
C7_Witness ==
    attRows = JaneTable /\ pc = "loop" /\ attExists /\ Len(attendance_df) = 1

\* the rows load_attendance is to turn into records: those from index h + 3 on
\* with at least 3 cells
RECURSIVE ExpectedRecords(_, _)
ExpectedRecords(rows, from) ==
    IF from >= Len(rows) THEN <<>>
    ELSE (IF Len(rows[from + 1]) >= 3
          THEN <<[roll_raw |-> strip(rows[from + 1][1]),
                  present |-> [n \in 1..4 |->
                                  /\ 3 + 2 * (n - 1) < Len(rows[from + 1])
                                  /\ lower(strip(rows[from + 1][3 + 2 * (n - 1) + 1]))
                                         \in TruthyTokens]]>>
          ELSE <<>>) \o ExpectedRecords(rows, from + 1)

HasHeader(rows) ==
    \E k \in DOMAIN rows : \E j \in DOMAIN rows[k] :
        j <= 3 /\ startswith(lower(strip(rows[k][j])), <<"r","o","l","l">>)

FirstHeader(rows) ==
    SetMin({k \in DOMAIN rows : \E j \in DOMAIN rows[k] :
               j <= 3 /\ startswith(lower(strip(rows[k][j])), <<"r","o","l","l">>)}) - 1

RecordsMatch(df, expected) ==
    /\ Len(df) = Len(expected)
    /\ \A k \in DOMAIN df :
          /\ df[k].roll_raw = expected[k].roll_raw
          /\ \A n \in 1..4 : df[k].session_presence[n] = expected[k].present[n]

\* C8: load_attendance fails only when no row has, among its first three
\* cells, one that starts with "roll"; with such a row at first index h it
\* returns one record per row of index >= h + 3 that has at least 3 cells, in
\* order (none when there is no such row), a session whose cell the row lacks
\* being absent.
C8_LoaderFailsOnlyWithoutHeader ==
    attExists /\ pc # "start" =>
        /\ exc # "ok" <=> ~HasHeader(attRows)
        /\ HasHeader(attRows) =>
              /\ pc \in {"loop", "done"}
              /\ RecordsMatch(attendance_df,
                              ExpectedRecords(attRows, FirstHeader(attRows) + 3))

CompleteTable(t) ==
    /\ \A col \in RubricCols : HasCol(t, col)
    /\ ~HasCol(t, KEY_COL)

\* C9: the destination of a file is written only after process_experiment
\* has gone through every step for it: when reading it fails, or it has no roll
\* column, or the session label is unknown, nothing is written for it (without
\* output directory the original stays as it was), and a table written is
\* never a partly processed one.
C9_WriteOnlyAfterAllSteps ==
    \A f \in DOMAIN orig :
        /\ Failed(f, {"ReadError", "KeyError: roll column", "KeyError: session"})
              => disk[f] = orig[f] /\ out[f] = Absent
        /\ disk[f] # orig[f] \/ out[f] # Absent
              => /\ Processed(f) \/ Failed(f, {"WriteError"})
                 /\ Processed(f) <=> Dest(f).kind = "table"
                 /\ Processed(f) =>
                       /\ CompleteTable(Dest(f))
                       /\ Len(Dest(f).rows) = Len(orig[f].rows)
        /\ output_dir => disk[f] = orig[f]
        /\ ~output_dir => out[f] = Absent

\* a readable table with a roll column, refused for its session label, with no
\* output directory
C9_Witness ==
    /\ ~output_dir
    /\ \E f \in DOMAIN orig :
          /\ Failed(f, {"KeyError: session"})
          /\ orig[f].kind = "table"
          /\ find_roll_column(orig[f].cols) # 0

\* the last record of df with key k
LastWithKey(df, k) == SetMax({r \in DOMAIN df : df[r].roll_num_key = k})

C10_Rows(keys, outT, df, n) ==
    \A i \in 1..Len(keys) :
        keys[i] # None /\ (\E r \in DOMAIN df : df[r].roll_num_key = keys[i])
            => RowMarkedFor(outT, i, df[LastWithKey(df, keys[i])].session_presence[n])

\* C10: when several attendance records have the same key, the lookup holds
\* the presence of the last of them, and a score row of that key is marked
\* from that record alone.
C10_LastRecordWins ==
    \A n \in DOMAIN calls :
        Processed(calls[n].fname) =>
            /\ \A r \in DOMAIN attendance_df :
                  attendance_map(attendance_df, calls[n].session_col)
                          [attendance_df[r].roll_num_key]
                      = attendance_df[LastWithKey(attendance_df,
                                          attendance_df[r].roll_num_key)]
                            .session_presence[SessionOf(calls[n].session_col)]
            /\ C10_Rows(RowKeys(orig[calls[n].fname]), Dest(calls[n].fname), attendance_df,
                        SessionOf(calls[n].session_col))

C10_WitnessRows(keys, df, n) ==
    \E i \in 1..Len(keys) : \E r, q \in DOMAIN df :
        /\ r < q
        /\ df[r].roll_num_key = keys[i]
        /\ df[q].roll_num_key = keys[i]
        /\ keys[i] # None
        /\ df[r].roll_raw # df[q].roll_raw
        /\ df[r].session_presence[n] # df[q].session_presence[n]

\* a saved table with a row whose key two records of different raw roll and
\* different presence share
C10_Witness ==
    \E n \in DOMAIN calls :
        /\ Processed(calls[n].fname)
        /\ C10_WitnessRows(RowKeys(orig[calls[n].fname]), attendance_df,
                           SessionOf(calls[n].session_col))

====
